---- MODULE Spec2Model ----
(***************************************************************************)
(* Graduate Career Outcomes Dashboard (src/app1.py).                       *)
(*                                                                         *)
(* The dashboard is a Streamlit script: every visit and every widget       *)
(* change executes the script top to bottom.  One execution is modelled as *)
(* the steps LoadData -> Sidebar -> ApplyFilter -> RenderCharts; the       *)
(* position of the running script is pc.  What outlives an execution is    *)
(* the st.cache_data cache of load_data and the session's widget values.   *)
(*                                                                         *)
(* Numbers are integers: a GPA of 3.0 is written 30, and a mean is kept as *)
(* the exact pair <<sum, count>>.  A missing cell (pandas NaN) is NA in a  *)
(* numeric column and NaNStr in a text column.                             *)
(***************************************************************************)
EXTENDS Integers, Sequences, FiniteSets

\* ------------------------------------------------------------------ bounds
\* Longest table the model loads.
MaxRows == 3
\* Most executions of pd.read_csv the model follows.
MaxReads == 2
\* Longest table the environment of SpecEnv writes to the dataset file.
MaxEnvRows == 2

\* ----------------------------------------------------------------- values
NA == -1
NaNStr == "NaN"
\* The mean of no values: 0/0.
NaN == <<0, 0>>

None == <<>>
Some(x) == <<x>>
Get(o) == o[1]

Categorical == {"Field_of_Study", "Gender", "Current_Job_Level"}
IsNull(col, v) == IF col \in Categorical THEN v = NaNStr ELSE v = NA

\* Text values in the order Python's sorted() and pandas' groupby give them.
Alphabetical == <<"Art", "CS", "Entry", "F", "M", "Mid">>
AlphaRank(s) == CHOOSE i \in 1..Len(Alphabetical) : Alphabetical[i] = s
KeyRank(col, k) == IF col \in Categorical THEN AlphaRank(k) ELSE k

Row(f, g, s, y, n, j, gen, sat, w, l, c) ==
    [Field_of_Study |-> f, University_GPA |-> g, Starting_Salary |-> s,
     Years_to_Promotion |-> y, Networking_Score |-> n, Job_Offers |-> j,
     Gender |-> gen, Career_Satisfaction |-> sat, WorkLifeBalance_Score |-> w,
     Current_Job_Level |-> l, Certifications |-> c]

\* The rows a dataset file of the model is made of.
RowPool ==
    { Row("CS",   30, 100, 2, 5, 2, "F", 7, 6, "Entry", 1),
      Row("CS",   31, 120, 1, 7, 3, "M", 8, 5, "Mid",   2),
      Row("Art",  29,  60, 3, 5, 1, "F", 7, 8, "Entry", 0),
      Row("Art",  30, 100, 2, 7, 2, "M", 6, 6, "Mid",   1),
      Row(NaNStr, 30, 100, 2, 5, 2, "F", 7, 6, "Entry", 1),
      Row("CS",   NA, 100, 2, 5, 2, "M", 7, 6, "Entry", 1),
      Row("Art",  31,  NA, NA, NA, NA, NaNStr, NA, NA, NaNStr, NA),
      Row("CS",   29,  NA, 2, 5, NA, "F", NA, 6, "Entry", 1) }

\* The rows of the files the environment writes in SpecEnv.
EnvPool ==
    { Row("CS",   30, 100, 2, 5, 2, "F", 7, 6, "Entry", 1),
      Row("Art",  29,  60, 3, 5, 1, "M", 7, 8, "Mid",   0),
      Row(NaNStr, NA,  NA, NA, NA, NA, NaNStr, NA, NA, NaNStr, NA) }

\* The tables of up to n data rows; a file has at least one.
Tables(pool, n) == UNION { [1..k -> pool] : k \in 1..n }

VARIABLES
    disk,             \* the dataset file: None (missing, unparseable) or Some(table)
    cache,            \* st.cache_data's entry for load_data(): None or Some(table)
    reads,            \* executions of pd.read_csv so far
    stable,           \* whether this build's sort keeps equal values in input order
    selected_fields,  \* session value of the multiselect: None or Some(set)
    gpa_range,        \* session value of the slider: None or Some(<<lo, hi>>)
    pc,               \* position of the running script
    df,               \* the script's df: None or Some(table)
    filtered,         \* the script's filtered: None or Some(table)
    overview,         \* the describe() table shown: None or Some(counts)
    charts            \* the figures handed to st.pyplot in this execution

vars == <<disk, cache, reads, stable, selected_fields, gpa_range, pc, df,
          filtered, overview, charts>>

\* ------------------------------------------------------- column helpers
Column(data, col) == [i \in 1..Len(data) |-> data[i][col]]

\* Series.dropna(): the present values, in row order.
dropna(data, col) == SelectSeq(Column(data, col), LAMBDA v : ~IsNull(col, v))

SeqRange(s) == { s[i] : i \in 1..Len(s) }
SetMin(S) == CHOOSE x \in S : \A y \in S : x <= y
SetMax(S) == CHOOSE x \in S : \A y \in S : y <= x

\* Series.unique() after dropna(): distinct values in order of first appearance.
unique(data, col) ==
    LET vals == dropna(data, col)
        first == { i \in 1..Len(vals) : \A j \in 1..(i - 1) : vals[j] # vals[i] }
        nth(p) == CHOOSE i \in first : Cardinality({ j \in first : j < i }) = p - 1
    IN  [p \in 1..Cardinality(first) |-> vals[nth(p)]]

\* ------------------------------------------------------- sidebar widgets
\* field_options = sorted(df["Field_of_Study"].dropna().unique()); the order
\* only places the entries of the multiselect, so the options are kept as a set.
field_options(data) == SeqRange(dropna(data, "Field_of_Study"))

\* float(df["University_GPA"].min()) and .max(): NaN when no value is present.
gpa_min(data) ==
    LET present == SeqRange(dropna(data, "University_GPA"))
    IN  IF present = {} THEN NA ELSE SetMin(present)
gpa_max(data) ==
    LET present == SeqRange(dropna(data, "University_GPA"))
    IN  IF present = {} THEN NA ELSE SetMax(present)

\* The pairs the slider can return: lo <= hi inside [min_value, max_value].
\* A position between two data values selects the rows of one of these pairs.
SliderValues(data) ==
    IF gpa_min(data) = NA
    THEN { <<NA, NA>> }
    ELSE { r \in (gpa_min(data)..gpa_max(data)) \X (gpa_min(data)..gpa_max(data)) :
             r[1] <= r[2] }

\* ---------------------------------------------------------------- filter
\* An empty selection taken for "no filter".
isin_or_unfiltered(v, values) == values = {} \/ v \in values

\* Series.isin(values): a missing cell is in no list of present values.
isin(v, values) == v \in values

\* between with inclusive="neither".
between_exclusive(v, left, right) ==
    /\ v # NA /\ left # NA /\ right # NA
    /\ left < v /\ v < right

\* Series.between(left, right), inclusive="both"; comparisons with NaN are False.
between(v, left, right) ==
    /\ v # NA /\ left # NA /\ right # NA
    /\ left <= v /\ v <= right

\* The two masks joined with | in place of &.
FilterRows_either(data, fields, range) ==
    SelectSeq(data, LAMBDA r : \/ isin(r["Field_of_Study"], fields)
                               \/ between(r["University_GPA"], range[1], range[2]))

\* df[mask]: the rows the mask keeps, in the order of df.
FilterRows(data, fields, range) ==
    SelectSeq(data, LAMBDA r : /\ isin(r["Field_of_Study"], fields)
                               /\ between(r["University_GPA"], range[1], range[2]))

\* filtered.describe(include="all"): its count row, the present cells per column.
Columns ==
    {"Field_of_Study", "University_GPA", "Starting_Salary", "Years_to_Promotion",
     "Networking_Score", "Job_Offers", "Gender", "Career_Satisfaction",
     "WorkLifeBalance_Score", "Current_Job_Level", "Certifications"}
describe(data) == [col \in Columns |-> Len(dropna(data, col))]

\* ---------------------------------------------------------- aggregation
Sum(s) ==
    LET RECURSIVE Acc(_)
        Acc(i) == IF i = 0 THEN 0 ELSE s[i] + Acc(i - 1)
    IN  Acc(Len(s))

\* Exact comparison of two means <<sum, count>>, neither of them NaN.
MeanLess(a, b) == a[1] * b[2] < b[1] * a[2]

\* The mean over all rows of a group, a missing value counted as zero.
GroupByMean_fillna(data, key, value) ==
    LET keys == SeqRange(dropna(data, key))
        group(k) == SelectSeq(data, LAMBDA r : r[key] = k)
        mean(k) == <<Sum(dropna(group(k), value)), Len(group(k))>>
        nth(p) == CHOOSE k \in keys :
                      Cardinality({ l \in keys : KeyRank(key, l) < KeyRank(key, k) }) = p - 1
    IN  [p \in 1..Cardinality(keys) |-> <<nth(p), mean(nth(p))>>]

\* data.groupby(key)[value].mean(): one entry <<key, mean>> per present key, in
\* ascending key order (sort=True); rows with a missing key are in no group
\* (dropna=True); missing values are skipped, and the mean of a group without a
\* value is NaN.
GroupByMean(data, key, value) ==
    LET keys == SeqRange(dropna(data, key))
        group(k) == SelectSeq(data, LAMBDA r : r[key] = k)
        mean(k) == LET vals == dropna(group(k), value)
                   IN  IF Len(vals) = 0 THEN NaN ELSE <<Sum(vals), Len(vals)>>
        nth(p) == CHOOSE k \in keys :
                      Cardinality({ l \in keys : KeyRank(key, l) < KeyRank(key, k) }) = p - 1
    IN  [p \in 1..Cardinality(keys) |-> <<nth(p), mean(nth(p))>>]

\* Series.sort_index(): the groupby result is in key order already.
sort_index(series) == series

\* Series.sort_values(ascending): kind="quicksort" and na_position="last".  NaN
\* entries go last in their input order.  The order of equal values is the sort
\* algorithm's: input order where it is stable, and where it is not the model
\* takes the reverse.
sort_values(series, ascending, keepsTies) ==
    LET tie(i, j) == IF keepsTies THEN i < j ELSE i > j
        before(i, j) ==
            LET a == series[i][2]
                b == series[j][2]
            IN  IF a = NaN \/ b = NaN
                THEN IF a = NaN /\ b = NaN THEN i < j ELSE b = NaN
                ELSE IF MeanLess(a, b) THEN ascending
                ELSE IF MeanLess(b, a) THEN ~ascending
                ELSE tie(i, j)
        pos(i) == 1 + Cardinality({ j \in 1..Len(series) : j # i /\ before(j, i) })
    IN  [p \in 1..Len(series) |-> series[CHOOSE i \in 1..Len(series) : pos(i) = p]]

\* Series.value_counts(): <<value, count>> per present value, the counts taken
\* in order of first appearance and then sorted descending by sort_values.
value_counts(data, col, keepsTies) ==
    LET vals == unique(data, col)
        count(v) == Len(SelectSeq(Column(data, col), LAMBDA x : x = v))
    IN  sort_values([p \in 1..Len(vals) |-> <<vals[p], <<count(vals[p]), 1>>>>],
                    FALSE, keepsTies)

\* [data[data[key] == g][value] for g in data[key].dropna().unique()]
PerGroup(data, key, value) ==
    LET groups == unique(data, key)
    IN  [p \in 1..Len(groups) |->
            <<groups[p], Column(SelectSeq(data, LAMBDA r : r[key] = groups[p]), value)>>]

\* ------------------------------------------------------------ the charts
\* What each plot function hands to matplotlib.
plot_gpa_hist(data) == Column(data, "University_GPA")

\* sort_values with ascending left at its default.
plot_salary_by_field_ascending(data, keepsTies) ==
    sort_values(GroupByMean(data, "Field_of_Study", "Starting_Salary"), TRUE, keepsTies)

plot_salary_by_field(data, keepsTies) ==
    sort_values(GroupByMean(data, "Field_of_Study", "Starting_Salary"), FALSE, keepsTies)

plot_salary_by_promotion_years(data) ==
    sort_index(GroupByMean(data, "Years_to_Promotion", "Starting_Salary"))

plot_job_offers_by_networking(data) ==
    sort_index(GroupByMean(data, "Networking_Score", "Job_Offers"))

plot_gpa_vs_promotion(data) ==
    [i \in 1..Len(data) |-> <<data[i]["Years_to_Promotion"], data[i]["University_GPA"]>>]

plot_satisfaction_by_gender(data) == PerGroup(data, "Gender", "Career_Satisfaction")

plot_worklife_by_field(data) == PerGroup(data, "Field_of_Study", "WorkLifeBalance_Score")

plot_joblevel_pie(data, keepsTies) == value_counts(data, "Current_Job_Level", keepsTies)

plot_offers_vs_certifications(data) ==
    sort_index(GroupByMean(data, "Certifications", "Job_Offers"))

plot_satisfaction_heatmap(data, keepsTies) ==
    sort_values(GroupByMean(data, "Field_of_Study", "Career_Satisfaction"), TRUE, keepsTies)

\* ax.violinplot(datasets): matplotlib takes an empty list of datasets for one
\* empty dataset, and np.min of an empty dataset raises ValueError; a dataset
\* that is a single NaN reaches GaussianKDE, which refuses a single element.
violinplot_raises(datasets) ==
    \/ Len(datasets) = 0
    \/ \E p \in 1..Len(datasets) : datasets[p][2] = <<NA>>

\* ax.boxplot(datasets, labels=fields): an empty list of datasets is taken for
\* one empty dataset, which the zero labels do not match (ValueError).
boxplot_raises(datasets) == Len(datasets) = 0

\* The page layout: the plot functions in the order the script calls them.
Layout ==
    <<"plot_gpa_hist", "plot_salary_by_field", "plot_salary_by_promotion_years",
      "plot_job_offers_by_networking", "plot_gpa_vs_promotion",
      "plot_satisfaction_by_gender", "plot_worklife_by_field", "plot_joblevel_pie",
      "plot_offers_vs_certifications", "plot_satisfaction_heatmap">>

Figure(fn, data, keepsTies) ==
    CASE fn = "plot_gpa_hist" -> plot_gpa_hist(data)
      [] fn = "plot_salary_by_field" -> plot_salary_by_field(data, keepsTies)
      [] fn = "plot_salary_by_promotion_years" -> plot_salary_by_promotion_years(data)
      [] fn = "plot_job_offers_by_networking" -> plot_job_offers_by_networking(data)
      [] fn = "plot_gpa_vs_promotion" -> plot_gpa_vs_promotion(data)
      [] fn = "plot_satisfaction_by_gender" -> plot_satisfaction_by_gender(data)
      [] fn = "plot_worklife_by_field" -> plot_worklife_by_field(data)
      [] fn = "plot_joblevel_pie" -> plot_joblevel_pie(data, keepsTies)
      [] fn = "plot_offers_vs_certifications" -> plot_offers_vs_certifications(data)
      [] fn = "plot_satisfaction_heatmap" -> plot_satisfaction_heatmap(data, keepsTies)

Raises(fn, data) ==
    CASE fn = "plot_satisfaction_by_gender" ->
             violinplot_raises(plot_satisfaction_by_gender(data))
      [] fn = "plot_worklife_by_field" ->
             boxplot_raises(plot_worklife_by_field(data))
      [] OTHER -> FALSE

\* The charts one execution puts on the page: st.pyplot(plot_x(filtered)) in
\* layout order, up to the first plot function that raises.  Each element is a
\* pyplot figure; the script has no other kind of chart element.
FirstRaise(data) ==
    IF \E i \in 1..Len(Layout) : Raises(Layout[i], data)
    THEN SetMin({ i \in 1..Len(Layout) : Raises(Layout[i], data) })
    ELSE Len(Layout) + 1

PageCharts(data, keepsTies) ==
    [i \in 1..(FirstRaise(data) - 1) |->
        [fn |-> Layout[i], element |-> "pyplot", data |-> Figure(Layout[i], data, keepsTies)]]

\* ------------------------------------------------------------------ state
Files(pool, n) == {None} \cup { Some(t) : t \in Tables(pool, n) }

Fresh ==
    /\ pc = "load"
    /\ cache = None
    /\ reads = 0
    /\ stable \in BOOLEAN
    /\ selected_fields = None
    /\ gpa_range = None
    /\ df = None
    /\ filtered = None
    /\ overview = None
    /\ charts = <<>>

Init == disk \in Files(RowPool, MaxRows) /\ Fresh

InitEnv == disk \in Files(EnvPool, MaxEnvRows) /\ Fresh

\* A new execution of the script starts with nothing bound and an empty page.
Restart ==
    /\ pc' = "load"
    /\ df' = None
    /\ filtered' = None
    /\ overview' = None
    /\ charts' = <<>>

\* ---------------------------------------------------------------- actions
\* load_data without the cache decorator: every call reads the file.
LoadCached_uncached ==
    /\ pc = "load"
    /\ cache # None
    /\ reads' = reads + 1
    /\ IF disk = None
       THEN pc' = "failed" /\ UNCHANGED <<cache, df>>
       ELSE pc' = "sidebar" /\ cache' = disk /\ df' = disk
    /\ UNCHANGED <<disk, stable, selected_fields, gpa_range, filtered, overview, charts>>

\* df = load_data(): @st.cache_data returns the cached table when there is one.
LoadCached ==
    /\ pc = "load"
    /\ cache # None
    /\ df' = cache
    /\ pc' = "sidebar"
    /\ UNCHANGED <<disk, cache, reads, stable, selected_fields, gpa_range,
                   filtered, overview, charts>>

\* df = load_data(): no cached table, pd.read_csv reads the file and the result
\* is cached.
LoadRead ==
    /\ pc = "load"
    /\ cache = None
    /\ disk # None
    /\ reads' = reads + 1
    /\ cache' = disk
    /\ df' = disk
    /\ pc' = "sidebar"
    /\ UNCHANGED <<disk, stable, selected_fields, gpa_range, filtered, overview, charts>>

\* df = load_data(): pd.read_csv raises (file missing, unreadable, unparseable);
\* nothing is cached and the exception ends the execution.
LoadFails ==
    /\ pc = "load"
    /\ cache = None
    /\ disk = None
    /\ reads' = reads + 1
    /\ pc' = "failed"
    /\ UNCHANGED <<disk, cache, stable, selected_fields, gpa_range, df,
                   filtered, overview, charts>>

LoadData == LoadCached \/ LoadRead \/ LoadFails

\* The multiselect returns the session's value, or its default (all options)
\* when the session has none.
Multiselect == IF selected_fields = None THEN Some(field_options(Get(df))) ELSE selected_fields

\* The slider returns the session's value, or its default (min_value,
\* max_value) when the session has none; both are NaN when the table has no
\* University_GPA.  The model lets the script go on where a version of the
\* widget might reject such bounds, or bounds that are equal.
Slider ==
    IF gpa_range = None THEN Some(<<gpa_min(Get(df)), gpa_max(Get(df))>>) ELSE gpa_range

\* The sidebar: header, multiselect and slider.
Sidebar ==
    /\ pc = "sidebar"
    /\ selected_fields' = Multiselect
    /\ gpa_range' = Slider
    /\ pc' = "filter"
    /\ UNCHANGED <<disk, cache, reads, stable, df, filtered, overview, charts>>

\* The filter assigned back to df.
ApplyFilter_inplace ==
    /\ pc = "filter"
    /\ filtered' = Some(FilterRows(Get(df), Get(selected_fields), Get(gpa_range)))
    /\ df' = filtered'
    /\ overview' = Some(describe(Get(filtered')))
    /\ pc' = "plot"
    /\ UNCHANGED <<disk, cache, reads, stable, selected_fields, gpa_range, charts>>

\* filtered = df[isin & between], then st.dataframe(filtered.describe(...)).
ApplyFilter ==
    /\ pc = "filter"
    /\ filtered' = Some(FilterRows(Get(df), Get(selected_fields), Get(gpa_range)))
    /\ overview' = Some(describe(Get(filtered')))
    /\ pc' = "plot"
    /\ UNCHANGED <<disk, cache, reads, stable, selected_fields, gpa_range, df, charts>>

\* The five sections of charts and the closing story summary; an exception of
\* a plot function ends the execution where it is raised.
RenderCharts ==
    /\ pc = "plot"
    /\ charts' = PageCharts(Get(filtered), stable)
    /\ pc' = IF FirstRaise(Get(filtered)) > Len(Layout) THEN "done" ELSE "error"
    /\ UNCHANGED <<disk, cache, reads, stable, selected_fields, gpa_range, df,
                   filtered, overview>>

\* The user re-runs the page with the widgets as they are.
Rerun ==
    /\ pc \in {"done", "error", "failed"}
    /\ cache # None \/ reads < MaxReads
    /\ Restart
    /\ UNCHANGED <<disk, cache, reads, stable, selected_fields, gpa_range>>

\* A widget change that does not execute the script again.
ChangeFilter_no_rerun ==
    /\ pc \in {"done", "error"}
    /\ selected_fields # None
    /\ cache # None
    /\ \E fields \in SUBSET field_options(Get(cache)) :
       \E range \in SliderValues(Get(cache)) :
          /\ selected_fields' = Some(fields)
          /\ gpa_range' = Some(range)
          /\ <<selected_fields', gpa_range'>> # <<selected_fields, gpa_range>>
    /\ UNCHANGED <<disk, cache, reads, stable, pc, df, filtered, overview, charts>>

\* The user changes a sidebar widget: the session takes the new values and the
\* script is executed again from the top.  (A change made while the script is
\* still running stops it and leads to the same state.)
ChangeFilter ==
    /\ pc \in {"done", "error"}
    /\ selected_fields # None
    /\ \E fields \in SUBSET field_options(Get(cache)) :
       \E range \in SliderValues(Get(cache)) :
          /\ selected_fields' = Some(fields)
          /\ gpa_range' = Some(range)
          /\ <<selected_fields', gpa_range'>> # <<selected_fields, gpa_range>>
    /\ Restart
    /\ UNCHANGED <<disk, cache, reads, stable>>

\* The environment rewrites, replaces or removes the dataset file.
FileChange ==
    /\ disk' \in Files(EnvPool, MaxEnvRows) \ {disk}
    /\ UNCHANGED <<cache, reads, stable, selected_fields, gpa_range, pc, df,
                   filtered, overview, charts>>

Next ==
    \/ LoadData
    \/ Sidebar
    \/ ApplyFilter
    \/ RenderCharts
    \/ Rerun
    \/ ChangeFilter

NextEnv == Next \/ FileChange

Spec == Init /\ [][Next]_vars

SpecEnv == InitEnv /\ [][NextEnv]_vars

\* ================================================================ claims
\* Helpers of the statements below.
Rendered(fn) == \E i \in 1..Len(charts) : charts[i].fn = fn
ChartData(fn) == charts[CHOOSE i \in 1..Len(charts) : charts[i].fn = fn].data
NthOf(S, p) == CHOOSE i \in S : Cardinality({ j \in S : j < i }) = p - 1
Present(col, v) == IF col \in Categorical THEN v # NaNStr ELSE v # NA

\* t is s with some rows left out, the others in their order.
IsSubSeq(t, s) ==
    \E keep \in SUBSET (1..Len(s)) :
        /\ Len(t) = Cardinality(keep)
        /\ \A p \in 1..Len(t) : t[p] = s[NthOf(keep, p)]

\* The sum of col over the rows of data whose indices are in S.
Total(data, col, S) ==
    LET RECURSIVE Acc(_)
        Acc(i) == IF i = 0 THEN 0
                  ELSE (IF i \in S THEN data[i][col] ELSE 0) + Acc(i - 1)
    IN  Acc(Len(data))

\* ---------------------------------------------------------------- C1
\* The rows of df the claim's predicate keeps: Field_of_Study among the
\* selected values and University_GPA present and inside [lo, hi].
C1_Kept ==
    LET t == Get(df)
        sel == Get(selected_fields)
        lo == Get(gpa_range)[1]
        hi == Get(gpa_range)[2]
    IN  { i \in 1..Len(t) :
            /\ \E f \in sel : f = t[i]["Field_of_Study"]
            /\ t[i]["University_GPA"] # NA /\ lo # NA /\ hi # NA
            /\ ~(t[i]["University_GPA"] < lo)
            /\ ~(t[i]["University_GPA"] > hi) }

\* C1: the Filtered View holds exactly the rows of the Record Table whose
\* Field_of_Study is selected and whose University_GPA lies in [min, max], both
\* ends included, in the order of the table: none that fails a predicate is
\* kept and none that satisfies both is dropped.
C1_FilterExact ==
    filtered # None =>
        /\ Len(Get(filtered)) = Cardinality(C1_Kept)
        /\ \A p \in 1..Len(Get(filtered)) :
               Get(filtered)[p] = Get(df)[NthOf(C1_Kept, p)]

\* A filter with lo = hi that keeps a row on the bound, drops a row of a
\* selected field for its GPA, and drops a row for its field.
C1_Witness ==
    /\ filtered # None
    /\ Get(gpa_range)[1] = Get(gpa_range)[2]
    /\ \E i \in C1_Kept : Get(df)[i]["University_GPA"] = Get(gpa_range)[1]
    /\ \E i \in 1..Len(Get(df)) :
           /\ Get(df)[i]["Field_of_Study"] \in Get(selected_fields)
           /\ Get(df)[i]["University_GPA"] # NA
           /\ i \notin C1_Kept
    /\ \E i \in 1..Len(Get(df)) :
           /\ Get(df)[i]["Field_of_Study"] \notin Get(selected_fields)
           /\ Get(df)[i]["University_GPA"] = Get(gpa_range)[1]

\* ---------------------------------------------------------------- C2
\* The Filter Selection is the default one: every observed Field_of_Study
\* value, and the observed [min, max] of University_GPA.
C2_Default ==
    LET t == Get(df)
        fields == { t[i]["Field_of_Study"] : i \in 1..Len(t) } \ {NaNStr}
        gpas == { t[i]["University_GPA"] : i \in 1..Len(t) } \ {NA}
        lo == Get(gpa_range)[1]
        hi == Get(gpa_range)[2]
    IN  /\ Get(selected_fields) = fields
        /\ IF gpas = {} THEN lo = NA /\ hi = NA
           ELSE /\ lo \in gpas /\ hi \in gpas
                /\ \A g \in gpas : lo <= g /\ g <= hi

C2_Complete(r) == r["Field_of_Study"] # NaNStr /\ r["University_GPA"] # NA

\* C2 as stated: with the default Filter Selection the filter returns the
\* Record Table unchanged, also when rows miss Field_of_Study or University_GPA.
C2_DefaultIsIdentity ==
    (filtered # None /\ C2_Default) => Get(filtered) = Get(df)

\* C2 amended: with the default Filter Selection the filter returns, in table
\* order, exactly the rows that have both a Field_of_Study and a University_GPA;
\* it returns the table unchanged if and only if no row misses either.
C2_DefaultKeepsComplete ==
    (filtered # None /\ C2_Default) =>
        LET t == Get(df)
            complete == { i \in 1..Len(t) : C2_Complete(t[i]) }
        IN  /\ Len(Get(filtered)) = Cardinality(complete)
            /\ \A p \in 1..Len(Get(filtered)) : Get(filtered)[p] = t[NthOf(complete, p)]
            /\ (Get(filtered) = t) <=> (complete = 1..Len(t))

\* The default selection over a table with a complete row, a row without
\* Field_of_Study and a row without University_GPA.
C2_Witness ==
    /\ filtered # None /\ C2_Default
    /\ Get(gpa_range)[1] < Get(gpa_range)[2]
    /\ Len(Get(filtered)) > 0
    /\ \E i \in 1..Len(Get(df)) : Get(df)[i]["Field_of_Study"] = NaNStr
    /\ \E i \in 1..Len(Get(df)) : Get(df)[i]["University_GPA"] = NA

\* ---------------------------------------------------------------- C3
\* The Field_of_Study groups of the filtered table and what the claim puts in
\* them.
C3_Groups == { Get(filtered)[i]["Field_of_Study"] : i \in 1..Len(Get(filtered)) } \ {NaNStr}
C3_Salaried(k) ==
    { i \in 1..Len(Get(filtered)) :
        /\ Get(filtered)[i]["Field_of_Study"] = k
        /\ Get(filtered)[i]["Starting_Salary"] # NA }
C3_FirstSeen(k) ==
    SetMin({ i \in 1..Len(Get(filtered)) : Get(filtered)[i]["Field_of_Study"] = k })

\* One entry per group, valued by the exact mean of the group's salaries (NaN
\* for a group without a salary).
C3_OneEntryPerGroup(s) ==
    /\ Len(s) = Cardinality(C3_Groups)
    /\ { s[p][1] : p \in 1..Len(s) } = C3_Groups
    /\ \A p \in 1..Len(s) :
           s[p][2] = IF C3_Salaried(s[p][1]) = {} THEN NaN
                     ELSE <<Total(Get(filtered), "Starting_Salary", C3_Salaried(s[p][1])),
                            Cardinality(C3_Salaried(s[p][1]))>>

\* C3 as stated: salary_by_field has one entry per Field_of_Study group, valued
\* by the group's mean Starting_Salary, descending by mean, and groups of equal
\* mean stand in the order in which their keys are first seen.
C3_TiesFirstSeen ==
    Rendered("plot_salary_by_field") =>
        LET s == ChartData("plot_salary_by_field")
        IN  /\ C3_OneEntryPerGroup(s)
            /\ \A p, q \in 1..Len(s) : (p < q /\ s[p][2] # NaN /\ s[q][2] # NaN) =>
                   \/ MeanLess(s[q][2], s[p][2])
                   \/ /\ ~MeanLess(s[p][2], s[q][2])
                      /\ C3_FirstSeen(s[p][1]) < C3_FirstSeen(s[q][1])

\* C3 amended: salary_by_field has one entry per Field_of_Study group, valued
\* by the group's mean Starting_Salary (undefined, NaN, for a group in which no
\* row has a salary); the entries with a mean come first, in non-increasing
\* order of mean, and the NaN entries last.  The order of groups with equal
\* means is left to the sort algorithm.
C3_SalaryByField ==
    Rendered("plot_salary_by_field") =>
        LET s == ChartData("plot_salary_by_field")
        IN  /\ C3_OneEntryPerGroup(s)
            /\ \A p, q \in 1..Len(s) : p < q =>
                   /\ s[p][2] = NaN => s[q][2] = NaN
                   /\ (s[p][2] # NaN /\ s[q][2] # NaN) => ~MeanLess(s[p][2], s[q][2])

\* Rows CS:100, CS:120, Art:60 give <<CS, 220/2>>, <<Art, 60/1>>.
C3_Witness ==
    /\ Rendered("plot_salary_by_field")
    /\ ChartData("plot_salary_by_field") = << <<"CS", <<220, 2>>>>, <<"Art", <<60, 1>>>> >>

\* ---------------------------------------------------------------- C4
\* C4 as stated: an execution whose Filtered View is empty completes, reaching
\* the closing story summary, with a "no data" placeholder for each of the ten
\* charts; no plot function raises.
C4_EmptyViewPlaceholders ==
    (filtered = Some(<<>>) /\ pc \in {"done", "error"}) =>
        /\ pc = "done"
        /\ Len(charts) = Len(Layout)
        /\ \A i \in 1..Len(charts) : charts[i].element = "placeholder"

\* ---------------------------------------------------------------- C5
\* C5: the Record Table of every execution is the table as first loaded, also
\* while the file changes: the cached table never changes once loaded, df is
\* that table at every step of the execution, and the Filtered View is a
\* selection of its rows in their order.
C5_TableImmutable ==
    /\ [](df # None => df = cache)
    /\ [](filtered # None => IsSubSeq(Get(filtered), Get(cache)))
    /\ [][cache # None => cache' = cache]_vars

\* A completed execution that filtered rows out and drew charts, over a table
\* the file no longer holds.
C5_Witness ==
    /\ pc = "done"
    /\ disk # cache
    /\ df = cache
    /\ Len(Get(filtered)) < Len(Get(df))
    /\ Len(charts) = Len(Layout)

\* ---------------------------------------------------------------- C6
\* C6: whatever the earlier selections were, the Filtered View, the overview
\* and the charts on the page are those of one execution over the loaded table
\* with the current Filter Selection alone (so a widget change has re-run every
\* stage, and a re-run with the selection unchanged gives the same page).
C6_StatelessRecompute ==
    LET view == FilterRows(Get(cache), Get(selected_fields), Get(gpa_range))
    IN  /\ filtered # None => Get(filtered) = view
        /\ overview # None => Get(overview) = describe(view)
        /\ pc \in {"done", "error"} /\ filtered # None => charts = PageCharts(view, stable)
        /\ pc \in {"load", "sidebar", "filter", "failed"} => filtered = None /\ charts = <<>>
        /\ pc = "plot" => charts = <<>>

\* A completed page for a selection the user narrowed in both widgets.
C6_Witness ==
    /\ pc = "done"
    /\ Get(selected_fields) # field_options(Get(df))
    /\ Get(gpa_range) # <<gpa_min(Get(df)), gpa_max(Get(df))>>
    /\ Len(Get(filtered)) > 0
    /\ Len(charts) = Len(Layout)

\* ---------------------------------------------------------------- C7
\* The five grouped-mean aggregations: plot function, grouping key, value.
C7_GroupedMeans ==
    { <<"plot_salary_by_field", "Field_of_Study", "Starting_Salary">>,
      <<"plot_salary_by_promotion_years", "Years_to_Promotion", "Starting_Salary">>,
      <<"plot_job_offers_by_networking", "Networking_Score", "Job_Offers">>,
      <<"plot_offers_vs_certifications", "Certifications", "Job_Offers">>,
      <<"plot_satisfaction_heatmap", "Field_of_Study", "Career_Satisfaction">> }

C7_Valued(key, value, k) ==
    { i \in 1..Len(Get(filtered)) :
        Get(filtered)[i][key] = k /\ Present(value, Get(filtered)[i][value]) }

\* C7 as stated: a group whose value column is missing in all of its rows is
\* omitted, so no entry of a grouped-mean result is undefined (NaN) or a zero
\* standing in for an empty group.
C7_EmptyGroupsOmitted ==
    \A a \in C7_GroupedMeans : Rendered(a[1]) =>
        \A p \in 1..Len(ChartData(a[1])) :
            /\ ChartData(a[1])[p][2] # NaN
            /\ C7_Valued(a[2], a[3], ChartData(a[1])[p][1]) # {}

\* C7 amended: each grouped-mean result has exactly one entry per present
\* grouping key of the filtered table, so rows with a null key are in no group;
\* missing values are left out of a group's mean; a group whose value column is
\* missing in all of its rows is kept, with the undefined mean NaN and never
\* with zero.
C7_EmptyGroupsAreNaN ==
    \A a \in C7_GroupedMeans : Rendered(a[1]) =>
        LET s == ChartData(a[1])
            keys == { Get(filtered)[i][a[2]] : i \in 1..Len(Get(filtered)) }
        IN  /\ Len(s) = Cardinality({ k \in keys : Present(a[2], k) })
            /\ { s[p][1] : p \in 1..Len(s) } = { k \in keys : Present(a[2], k) }
            /\ \A p \in 1..Len(s) :
                   s[p][2] = IF C7_Valued(a[2], a[3], s[p][1]) = {} THEN NaN
                             ELSE <<Total(Get(filtered), a[3], C7_Valued(a[2], a[3], s[p][1])),
                                    Cardinality(C7_Valued(a[2], a[3], s[p][1]))>>

\* All ten charts drawn over a view in which one Field_of_Study group has no
\* Career_Satisfaction, one group has a value missing in some rows only, and a
\* row has no Years_to_Promotion.
C7_Witness ==
    /\ Len(charts) = Len(Layout)
    /\ Get(gpa_range)[1] < Get(gpa_range)[2]
    /\ \E p \in 1..Len(ChartData("plot_satisfaction_heatmap")) :
           ChartData("plot_satisfaction_heatmap")[p][2] = NaN
    /\ \E p \in 1..Len(ChartData("plot_salary_by_field")) :
           /\ ChartData("plot_salary_by_field")[p][2] # NaN
           /\ \E i \in 1..Len(Get(filtered)) :
                  /\ Get(filtered)[i]["Field_of_Study"] = ChartData("plot_salary_by_field")[p][1]
                  /\ Get(filtered)[i]["Starting_Salary"] = NA
    /\ \E i \in 1..Len(Get(filtered)) : Get(filtered)[i]["Years_to_Promotion"] = NA

\* ---------------------------------------------------------------- C8
\* C8: with no Field_of_Study value selected the filter step raises nothing and
\* its result is the empty table, for every table and every GPA interval.
C8_EmptySelectionEmptyView ==
    /\ [](selected_fields = Some({}) /\ filtered # None => Get(filtered) = <<>>)
    /\ [][(pc = "filter" /\ selected_fields = Some({})) =>
              (pc' = "plot" /\ filtered' = Some(<<>>))]_vars

\* No field selected over a table with a row inside the GPA interval.
C8_Witness ==
    /\ selected_fields = Some({})
    /\ filtered = Some(<<>>)
    /\ \E i \in 1..Len(Get(df)) :
           /\ Get(df)[i]["Field_of_Study"] # NaNStr
           /\ Get(df)[i]["University_GPA"] # NA
           /\ Get(gpa_range)[1] <= Get(df)[i]["University_GPA"]
           /\ Get(df)[i]["University_GPA"] <= Get(gpa_range)[2]

\* ---------------------------------------------------------------- C9
\* C9 as stated: the dataset file is read at most once in the process lifetime.
C9_ReadAtMostOnce == reads <= 1

\* C9 amended: once a call of load_data has read the file successfully, no
\* later execution reads it again: each receives the table of that read, and a
\* change of the file after it is never observed.  A read that fails caches
\* nothing, so until a read succeeds every execution reads the file again.
C9_ReadOnceLoaded ==
    /\ [][cache # None => (reads' = reads /\ cache' = cache)]_vars
    /\ [][(cache # None /\ pc = "load" /\ pc' # "load") =>
              (df' = cache /\ pc' = "sidebar")]_vars
    /\ [][(cache = None /\ pc = "load" /\ pc' # "load") => reads' = reads + 1]_vars

\* An execution served from the cache after the file was changed, the file
\* having been read the one time.
C9_Witness ==
    /\ cache # None
    /\ disk # cache
    /\ reads = 1
    /\ pc = "sidebar"
    /\ df = cache
    /\ selected_fields # None

\* --------------------------------------------------------------- C10
\* C10 as stated: an execution whose load fails creates no filter widget,
\* computes no Filtered View and renders no chart; and no execution ends in any
\* other error, every stage after a successful load being total.
C10_LoadFailureOnlyError ==
    /\ pc = "failed" => (selected_fields = None /\ gpa_range = None /\ df = None
                         /\ filtered = None /\ overview = None /\ charts = <<>>)
    /\ pc # "error"

====
